---- MODULE Spec2Model ----
(***************************************************************************)
(* Model of monte_carlo_simulator.py: the classes Variable, Modelo,        *)
(* Simulador and Resultados, and the handlers of AplicacionMonteCarlo.     *)
(*                                                                         *)
(* Numbers are exact rationals [n, d] (d > 0), extended with the IEEE      *)
(* values numpy produces instead of raising: +inf = [1,0], -inf = [-1,0],  *)
(* nan = [0,0].  Floating-point rounding and negative zero are not         *)
(* modelled.  A value carries its Python type, because Python scalars and  *)
(* numpy scalars differ in what raises.                                    *)
(*                                                                         *)
(* SpecLib: a program calling Variable, Modelo and Simulador directly.     *)
(* Spec: the handlers of AplicacionMonteCarlo.                             *)
(* SpecEvaluador: the goal evaluator over the results of a finished run.   *)
(* SpecRegistro: adding and removing variables in the application.         *)
(*                                                                         *)
(* Names are sequences of text pieces (<<"x">>, <<"x", " (", "k">>), so    *)
(* that the list-box text f"{nombre} ({dist})" and its split(" (") are     *)
(* computed, not assumed.                                                  *)
(***************************************************************************)
EXTENDS Integers, Sequences, FiniteSets, TLC

\* ------------------------------------------------------------- bounds
\* Largest trial count a caller passes to Simulador / types in the app.
MaxN == 2
\* Largest trial count typed into the application.
MaxSim == 1
\* Samples of an unbounded distribution are drawn from -1..MaxVal.
MaxVal == 1

\* ------------------------------------------------------------- numbers
Abs(i) == IF i < 0 THEN -i ELSE i
Sign(i) == IF i > 0 THEN 1 ELSE IF i < 0 THEN -1 ELSE 0

RECURSIVE Gcd(_, _)
Gcd(a, b) == IF b = 0 THEN a ELSE Gcd(b, a % b)

\* The rational n/d in lowest terms; d = 0 gives +inf, -inf or nan.
Norm(n, d) ==
    IF d = 0 THEN [n |-> Sign(n), d |-> 0]
    ELSE LET g == Gcd(Abs(n), d) IN [n |-> n \div g, d |-> d \div g]

Num(i) == [n |-> i, d |-> 1]
NaN == [n |-> 0, d |-> 0]
Inf == [n |-> 1, d |-> 0]
IsNaN(a) == a.n = 0 /\ a.d = 0
IsZero(a) == a.n = 0 /\ a.d # 0

Neg(a) == [n |-> -a.n, d |-> a.d]
Add(a, b) ==
    IF IsNaN(a) \/ IsNaN(b) THEN NaN
    ELSE IF a.d = 0 /\ b.d = 0 THEN (IF a.n = b.n THEN a ELSE NaN)
    ELSE IF a.d = 0 THEN a
    ELSE IF b.d = 0 THEN b
    ELSE Norm(a.n * b.d + b.n * a.d, a.d * b.d)
Mul(a, b) == Norm(a.n * b.n, a.d * b.d)
\* 1/a with IEEE results: 1/0 = inf, 1/inf = 0, 1/nan = nan.
Inv(a) ==
    IF a.n > 0 THEN [n |-> a.d, d |-> a.n]
    ELSE IF a.n < 0 THEN [n |-> -a.d, d |-> -a.n]
    ELSE IF a.d = 0 THEN NaN ELSE Inf
Div(a, b) == Mul(a, Inv(b))

RECURSIVE PowNat(_, _)
PowNat(a, e) == IF e = 0 THEN Num(1) ELSE Mul(a, PowNat(a, e - 1))
\* a ** e for an integer exponent e.
Pow(a, e) == IF e >= 0 THEN PowNat(a, e) ELSE Inv(PowNat(a, -e))

\* a < b and a <= b as IEEE comparisons (false when either side is nan).
Lt(a, b) ==
    /\ ~IsNaN(a) /\ ~IsNaN(b)
    /\ IF a.d = 0 /\ b.d = 0 THEN a.n < b.n ELSE a.n * b.d < b.n * a.d
Le(a, b) == ~IsNaN(a) /\ ~IsNaN(b) /\ (a = b \/ Lt(a, b))

\* ------------------------------------------------------------- typed values
\* t is the Python type: "int", "float" (Python scalars), "int64", "float64"
\* (numpy scalars, as the elements of the arrays numpy.random returns).
Val(t, v) == [t |-> t, v |-> v]
EsNumpy(t) == t \in {"int64", "float64"}
EsFloat(t) == t \in {"float", "float64"}
Tipo(np, fl) ==
    IF np THEN (IF fl THEN "float64" ELSE "int64")
    ELSE (IF fl THEN "float" ELSE "int")

Ok(val) == [ok |-> TRUE, val |-> val]
Raise(exc, arg) == [ok |-> FALSE, exc |-> exc, arg |-> arg]

\* Python's a <op> b on scalars.  Division by zero raises for two Python
\* scalars and gives inf/nan (with a warning only) when a numpy scalar takes
\* part; a negative integer power of integers raises ValueError in numpy.
BinOp(op, a, b) ==
    LET np == EsNumpy(a.t) \/ EsNumpy(b.t)
        fl == EsFloat(a.t) \/ EsFloat(b.t)
    IN CASE a.t = "builtin" \/ b.t = "builtin" ->
              Raise("TypeError", "unsupported operand type(s)")
         [] op = "+" -> Ok(Val(Tipo(np, fl), Add(a.v, b.v)))
         [] op = "-" -> Ok(Val(Tipo(np, fl), Add(a.v, Neg(b.v))))
         [] op = "*" -> Ok(Val(Tipo(np, fl), Mul(a.v, b.v)))
         [] op = "/" ->
              IF IsZero(b.v) /\ ~np
              THEN Raise("ZeroDivisionError", "division by zero")
              ELSE Ok(Val(Tipo(np, TRUE), Div(a.v, b.v)))
         [] op = "**" /\ b.v.d = 1 ->
              IF b.v.n < 0 /\ ~fl /\ np
              THEN Raise("ValueError", "Integers to negative integer powers are not allowed.")
              ELSE IF b.v.n < 0 /\ IsZero(a.v) /\ ~np
              THEN Raise("ZeroDivisionError", "0.0 cannot be raised to a negative power")
              ELSE Ok(Val(Tipo(np, fl \/ b.v.n < 0), Pow(a.v, b.v.n)))

\* ------------------------------------------------------------- formulas
\* A formula is the syntax tree of the text the user typed; the order of the
\* fields is the order of the text.
Name(id) == [k |-> "name", id |-> id]
Lit(i) == [k |-> "num", val |-> i]
Bin(op, l, r) == [k |-> "bin", op |-> op, l |-> l, r |-> r]
Call(f, args) == [k |-> "call", f |-> f, args |-> args]

X == <<"x">>
Y == <<"y">>

funciones_permitidas ==
    {<<"sqrt">>, <<"exp">>, <<"log">>, <<"sin">>, <<"cos">>, <<"tan">>,
     <<"abs">>, <<"min">>, <<"max">>, <<"pow">>}

\* re.findall(r'\b[a-zA-Z_]\w*\b', formula): the identifiers in text order,
\* function names included.
RECURSIVE Identificadores(_)
Identificadores(f) ==
    CASE f.k = "name" -> <<f.id>>
      [] f.k = "num" -> <<>>
      [] f.k = "bin" -> Identificadores(f.l) \o Identificadores(f.r)
      [] f.k = "call" ->
           <<f.f>> \o (IF Len(f.args) = 1 THEN Identificadores(f.args[1])
                       ELSE Identificadores(f.args[1]) \o Identificadores(f.args[2]))

\* A call of a whitelisted function on evaluated arguments (abs, min, max and
\* pow are the Python builtins).
Aplicar(fn, args) ==
    CASE fn = <<"abs">> /\ Len(args) = 1 ->
           Ok(Val(args[1].t, [n |-> Abs(args[1].v.n), d |-> args[1].v.d]))
      [] fn \in {<<"min">>, <<"max">>} /\ Len(args) = 1 ->
           Raise("TypeError", "object is not iterable")
      [] fn = <<"max">> /\ Len(args) = 2 ->
           Ok(IF Lt(args[1].v, args[2].v) THEN args[2] ELSE args[1])
      [] fn = <<"min">> /\ Len(args) = 2 ->
           Ok(IF Lt(args[2].v, args[1].v) THEN args[2] ELSE args[1])
      [] fn = <<"pow">> /\ Len(args) = 2 -> BinOp("**", args[1], args[2])

\* eval(formula, {"__builtins__": {}}, namespace), where namespace is the ten
\* functions overridden by the mapping ns of names to values.  Operands are
\* evaluated left to right and the first exception ends the evaluation.
RECURSIVE Eval(_, _)
Eval(f, ns) ==
    CASE f.k = "num" -> Ok(Val("int", Num(f.val)))
      [] f.k = "name" ->
           IF f.id \in DOMAIN ns THEN Ok(ns[f.id])
           ELSE IF f.id \in funciones_permitidas THEN Ok(Val("builtin", f.id))
           ELSE Raise("NameError", f.id)
      [] f.k = "bin" ->
           LET l == Eval(f.l, ns) IN
           IF ~l.ok THEN l
           ELSE LET r == Eval(f.r, ns) IN
                IF ~r.ok THEN r ELSE BinOp(f.op, l.val, r.val)
      [] f.k = "call" ->
           IF f.f \notin DOMAIN ns /\ f.f \notin funciones_permitidas
           THEN Raise("NameError", f.f)
           ELSE LET a1 == Eval(f.args[1], ns) IN
                IF ~a1.ok THEN a1
                ELSE IF Len(f.args) = 1
                THEN (IF f.f \in DOMAIN ns
                      THEN Raise("TypeError", "object is not callable")
                      ELSE Aplicar(f.f, <<a1.val>>))
                ELSE LET a2 == Eval(f.args[2], ns) IN
                     IF ~a2.ok THEN a2
                     ELSE IF f.f \in DOMAIN ns
                     THEN Raise("TypeError", "object is not callable")
                     ELSE Aplicar(f.f, <<a1.val, a2.val>>)

\* ------------------------------------------------------------- dict
\* A Python dict of Variables is the sequence of its values in insertion
\* order; the key of a Variable is its nombre.
Claves(d) == [k \in 1..Len(d) |-> d[k].nombre]
EnDict(nombre, d) == \E k \in 1..Len(d) : d[k].nombre = nombre
\* d[nombre] = v: a new key is appended, an existing key keeps its place.
DictSet(d, v) ==
    IF EnDict(v.nombre, d)
    THEN [k \in 1..Len(d) |-> IF d[k].nombre = v.nombre THEN v ELSE d[k]]
    ELSE Append(d, v)
\* del d[nombre], for a key of d.
DictDel(d, nombre) == SelectSeq(d, LAMBDA v : v.nombre # nombre)

\* ------------------------------------------------------------- Variable
distribuciones_validas ==
    {"normal", "uniforme", "triangular", "lognormal", "binomial", "poisson"}

\* Variable._validar_parametros: only the distribution name is checked.
ValidarParametros(distribucion, parametros) ==
    IF distribucion \notin distribuciones_validas
    THEN Raise("ValueError", "no soportada")
    ELSE [ok |-> TRUE]

\* Variable(nombre, distribucion, parametros)
NuevaVariable(nombre, distribucion, parametros) ==
    LET v == ValidarParametros(distribucion, parametros) IN
    IF ~v.ok THEN v
    ELSE Ok([nombre |-> nombre, distribucion |-> distribucion,
             parametros |-> parametros])

\* The keys generar_muestra reads, in the order it reads them.
ClavesLeidas(distribucion) ==
    CASE distribucion = "normal" -> <<"media", "desviacion">>
      [] distribucion = "uniforme" -> <<"minimo", "maximo">>
      [] distribucion = "triangular" -> <<"minimo", "moda", "maximo">>
      [] distribucion = "lognormal" -> <<"media_log", "desviacion_log">>
      [] distribucion = "binomial" -> <<"n", "p">>
      [] distribucion = "poisson" -> <<"lambda">>

Ventana == (-1)..MaxVal

\* numpy.random rejects these parameters with ValueError.
FueraDeDominio(distribucion, p) ==
    CASE distribucion = "normal" -> p["desviacion"] < 0
      [] distribucion = "uniforme" -> FALSE
      [] distribucion = "triangular" ->
           \/ p["minimo"] > p["moda"] \/ p["moda"] > p["maximo"]
           \/ p["minimo"] = p["maximo"]
      [] distribucion = "lognormal" -> p["desviacion_log"] < 0
      [] distribucion = "binomial" -> p["n"] < 0 \/ p["p"] < 0 \/ p["p"] > 1
      [] distribucion = "poisson" -> p["lambda"] < 0

\* The values one draw can give (integers of the window stand for the reals).
Soporte(distribucion, p) ==
    CASE distribucion = "normal" ->
           IF p["desviacion"] = 0 THEN {p["media"]} ELSE Ventana
      [] distribucion = "uniforme" ->
           IF p["minimo"] = p["maximo"] THEN {p["minimo"]}
           ELSE IF p["minimo"] < p["maximo"]
           THEN {v \in Ventana : p["minimo"] <= v /\ v < p["maximo"]}
           ELSE {v \in Ventana : p["maximo"] < v /\ v <= p["minimo"]}
      [] distribucion = "triangular" ->
           {v \in Ventana : p["minimo"] <= v /\ v <= p["maximo"]}
      [] distribucion = "lognormal" ->
           IF p["desviacion_log"] = 0 /\ p["media_log"] = 0 THEN {1}
           ELSE {v \in Ventana : v > 0}
      [] distribucion = "binomial" ->
           IF p["p"] = 0 THEN {0} ELSE {p["n"]}
      [] distribucion = "poisson" ->
           IF p["lambda"] = 0 THEN {0} ELSE {v \in Ventana : v >= 0}

TipoMuestra(distribucion) ==
    IF distribucion \in {"binomial", "poisson"} THEN "int64" ELSE "float64"

\* Variable.generar_muestra(n): every outcome the call can have, an array of
\* n draws or the exception raised (KeyError for a key parametros lacks,
\* ValueError from numpy for parameters out of domain or a negative n).
GenerarMuestra(v, n) ==
    LET claves == ClavesLeidas(v.distribucion)
        faltan == {k \in 1..Len(claves) : claves[k] \notin DOMAIN v.parametros}
    IN  IF faltan # {}
        THEN {Raise("KeyError", claves[CHOOSE k \in faltan : \A j \in faltan : k <= j])}
        ELSE IF FueraDeDominio(v.distribucion, v.parametros)
        THEN {Raise("ValueError", "numpy: parameter out of domain")}
        ELSE IF n < 0
        THEN {Raise("ValueError", "negative dimensions are not allowed")}
        ELSE {[ok |-> TRUE, arr |-> a] :
                a \in [1..n -> {Val(TipoMuestra(v.distribucion), Num(s)) :
                                  s \in Soporte(v.distribucion, v.parametros)}]}

\* ------------------------------------------------------------- Modelo
\* Mutant of ValidarFormula: the whitelist is not removed before the check.
ValidarFormulaSinFiltro(formula, variables) ==
    LET nombres == Identificadores(formula)
        malos == {k \in 1..Len(nombres) : ~EnDict(nombres[k], variables)}
    IN  IF malos = {} THEN [ok |-> TRUE]
        ELSE Raise("ValueError", nombres[CHOOSE k \in malos : \A j \in malos : k <= j])

\* Modelo._validar_formula: the first identifier, in text order, that is
\* neither whitelisted nor a key of variables raises ValueError naming it.
ValidarFormula(formula, variables) ==
    LET nombres == SelectSeq(Identificadores(formula),
                             LAMBDA n : n \notin funciones_permitidas)
        malos == {k \in 1..Len(nombres) : ~EnDict(nombres[k], variables)}
    IN  IF malos = {} THEN [ok |-> TRUE]
        ELSE Raise("ValueError", nombres[CHOOSE k \in malos : \A j \in malos : k <= j])

\* Modelo.evaluar: any exception of eval is re-raised as ValueError.
Evaluar(formula, valores_variables) ==
    LET r == Eval(formula, valores_variables) IN
    IF r.ok THEN r ELSE Raise("ValueError", r)

\* ------------------------------------------------------------- Simulador
\* Mutant of ValoresActuales: only the first variable follows the trial
\* index, the others keep the sample of the first trial.
ValoresActualesDesalineado(variables, muestras, i) ==
    [nombre \in {variables[k].nombre : k \in 1..Len(variables)} |->
        LET k == CHOOSE j \in 1..Len(variables) : variables[j].nombre = nombre
        IN  muestras[k].arr[IF k = 1 THEN i ELSE 1]]

\* valores_actuales of trial i: {nombre: muestras_variables[nombre][i]}.
ValoresActuales(variables, muestras, i) ==
    [nombre \in {variables[k].nombre : k \in 1..Len(variables)} |->
        muestras[CHOOSE k \in 1..Len(variables) : variables[k].nombre = nombre].arr[i]]

\* Mutant of BucleSimulacion: the loop stops one trial early.
RECURSIVE BucleSimulacionCorto(_, _, _, _, _, _)
BucleSimulacionCorto(formula, variables, muestras, i, n, acc) ==
    IF i >= n THEN [ok |-> TRUE, datos |-> acc]
    ELSE LET r == Evaluar(formula, ValoresActuales(variables, muestras, i)) IN
         IF ~r.ok THEN r
         ELSE BucleSimulacionCorto(formula, variables, muestras, i + 1, n,
                                   Append(acc, r.val.v))

\* Mutant of BucleSimulacion: a trial whose evaluation fails is skipped.
RECURSIVE BucleSimulacionOmite(_, _, _, _, _, _)
BucleSimulacionOmite(formula, variables, muestras, i, n, acc) ==
    IF i > n THEN [ok |-> TRUE, datos |-> acc]
    ELSE LET r == Evaluar(formula, ValoresActuales(variables, muestras, i)) IN
         BucleSimulacionOmite(formula, variables, muestras, i + 1, n,
                              IF r.ok THEN Append(acc, r.val.v) ELSE acc)

\* The loop "for i in range(n_simulaciones)" from trial i on, acc being
\* resultados_simulaciones so far: the first failing trial raises.
RECURSIVE BucleSimulacion(_, _, _, _, _, _)
BucleSimulacion(formula, variables, muestras, i, n, acc) ==
    IF i > n THEN [ok |-> TRUE, datos |-> acc]
    ELSE LET r == Evaluar(formula, ValoresActuales(variables, muestras, i)) IN
         IF ~r.ok THEN r
         ELSE BucleSimulacion(formula, variables, muestras, i + 1, n,
                              Append(acc, r.val.v))

\* Simulador(modelo, n).ejecutar() when generar_muestra of the k-th variable
\* has the outcome muestras[k]: the first failed draw raises, otherwise the
\* trials are evaluated and Resultados(np.array(...)) is returned.
Ejecutar(formula, variables, n, muestras) ==
    LET fallan == {k \in 1..Len(variables) : ~muestras[k].ok} IN
    IF fallan # {}
    THEN muestras[CHOOSE k \in fallan : \A j \in fallan : k <= j]
    ELSE BucleSimulacion(formula, variables, muestras, 1, n, <<>>)

\* Every way the draws of a run can turn out: one outcome of generar_muestra
\* for each variable from the k-th on, in the order of the dict.
RECURSIVE SorteosDesde(_, _, _)
SorteosDesde(variables, n, k) ==
    IF k > Len(variables) THEN {<<>>}
    ELSE {<<g>> \o resto : g \in GenerarMuestra(variables[k], n),
                           resto \in SorteosDesde(variables, n, k + 1)}
Sorteos(variables, n) == SorteosDesde(variables, n, 1)

\* ------------------------------------------------------------- state
VARIABLES
    \* A program that uses the classes directly:
    registro,   \* the dict of Variables the caller keeps and passes to Modelo
    modelo,     \* the caller's Modelo (its variables are registro itself)
    retorno,    \* what the last call returned or raised, with its arguments
    \* AplicacionMonteCarlo:
    variables,                  \* self.variables, {nombre: Variable}
    lista_variables,            \* the lines of the list box self.lista_variables
    formula_text,               \* the content of the text box self.formula_text
    resultados,                 \* self.resultados (hay = FALSE for None)
    meta_resultado_label,       \* what the goal evaluator shows
    estimador_resultado_label,  \* what the estimator shows
    mensaje,                    \* the last messagebox shown, and by which handler
    corrida                     \* history: the Modelo of the run that set resultados

libvars == <<registro, modelo, retorno>>
appvars == <<variables, lista_variables, formula_text, resultados,
             meta_resultado_label, estimador_resultado_label, mensaje, corrida>>
vars == <<registro, modelo, retorno, variables, lista_variables, formula_text,
          resultados, meta_resultado_label, estimador_resultado_label, mensaje,
          corrida>>

\* ------------------------------------------------------------- inputs
P1(k, v) == [c \in {k} |-> v]
P2(k1, v1, k2, v2) == [c \in {k1, k2} |-> IF c = k1 THEN v1 ELSE v2]

\* (distribucion, parametros) pairs a caller passes to Variable(nombre, ...).
ConfigsLib(nombre) ==
    IF nombre = X
    THEN { [distribucion |-> "uniforme", parametros |-> P2("minimo", -1, "maximo", 1)],
           [distribucion |-> "poisson", parametros |-> P1("lambda", 1)],
           [distribucion |-> "normal", parametros |-> P1("media", 1)],
           [distribucion |-> "gauss", parametros |-> P2("media", 0, "desviacion", 1)] }
    ELSE { [distribucion |-> "uniforme", parametros |-> P2("minimo", 0, "maximo", 2)],
           [distribucion |-> "normal", parametros |-> P2("media", 0, "desviacion", -1)] }

NombresLib == {X, Y}

\* "x", "x + y", "max(y, x) * 2", "2 ** (x - 1)", "1 / x", "abs(x) - y"
FormulasLib ==
    { Name(X),
      Bin("+", Name(X), Name(Y)),
      Bin("*", Call(<<"max">>, <<Name(Y), Name(X)>>), Lit(2)),
      Bin("**", Lit(2), Bin("-", Name(X), Lit(1))),
      Bin("/", Lit(1), Name(X)),
      Bin("-", Call(<<"abs">>, <<Name(X)>>), Name(Y)) }

\* ------------------------------------------------------------- entry texts
\* The text of an Entry after strip(): a number, nothing, or not a number.
TNum(i) == [txt |-> "num", val |-> i]
TVacio == [txt |-> "vacio"]
TMalo == [txt |-> "abc"]
\* float(valor) and int(valor)
Float(t) ==
    IF t.txt = "num" THEN Ok(Val("float", Num(t.val)))
    ELSE Raise("ValueError", "could not convert string to float")
EnteroDe(t) ==
    IF t.txt = "num" THEN Ok(Val("int", Num(t.val)))
    ELSE Raise("ValueError", "invalid literal for int()")

\* Mutant of Strip: the text is taken as typed.
StripNada(t) == t

\* nombre.strip(): blanks at both ends are dropped.
RECURSIVE Strip(_)
Strip(t) ==
    IF t = <<>> THEN t
    ELSE IF Head(t) = " " THEN Strip(Tail(t))
    ELSE IF t[Len(t)] = " " THEN Strip(SubSeq(t, 1, Len(t) - 1))
    ELSE t

\* f"{nombre} ({dist})", the line of the list box
FormatoLista(nombre, dist) == nombre \o <<" (", dist, ")">>
\* texto.split(" (")[0]
RECURSIVE NombreDeTexto(_)
NombreDeTexto(texto) ==
    IF texto = <<>> \/ Head(texto) = " (" THEN <<>>
    ELSE <<Head(texto)>> \o NombreDeTexto(Tail(texto))

\* ------------------------------------------------------------- Resultados
\* Mutant of PercentileOfScore: ties count as half (kind='mean').
PercentileOfScoreMean(a, score) ==
    LET n == Len(a)
        left == Cardinality({i \in 1..n : Lt(a[i], score)})
        right == Cardinality({i \in 1..n : Le(a[i], score)})
    IN  IF n = 0 \/ IsNaN(score) \/ \E i \in 1..n : IsNaN(a[i]) THEN NaN
        ELSE Norm((left + right) * 50, n)

\* Mutant of PercentileOfScore: the comparisons are the wrong way round.
PercentileOfScoreInvertido(a, score) ==
    LET n == Len(a)
        left == Cardinality({i \in 1..n : Lt(score, a[i])})
        right == Cardinality({i \in 1..n : Le(score, a[i])})
    IN  IF n = 0 \/ IsNaN(score) \/ \E i \in 1..n : IsNaN(a[i]) THEN NaN
        ELSE Norm((left + right + (IF left < right THEN 1 ELSE 0)) * 50, n)

\* Mutant of PercentileOfScore: the tie term is added even without a tie.
PercentileOfScoreSiempreEmpate(a, score) ==
    LET n == Len(a)
        left == Cardinality({i \in 1..n : Lt(a[i], score)})
        right == Cardinality({i \in 1..n : Le(a[i], score)})
    IN  IF n = 0 \/ IsNaN(score) \/ \E i \in 1..n : IsNaN(a[i]) THEN NaN
        ELSE Norm((left + right + 1) * 50, n)

\* scipy.stats.percentileofscore(a, score) with its defaults kind='rank' and
\* nan_policy='propagate': (left + right + (1 if left < right else 0)) * 50 / n
\* where left = count(a < score), right = count(a <= score); nan when a is
\* empty or holds a nan.
PercentileOfScore(a, score) ==
    LET n == Len(a)
        left == Cardinality({i \in 1..n : Lt(a[i], score)})
        right == Cardinality({i \in 1..n : Le(a[i], score)})
    IN  IF n = 0 \/ IsNaN(score) \/ \E i \in 1..n : IsNaN(a[i]) THEN NaN
        ELSE Norm((left + right + (IF left < right THEN 1 ELSE 0)) * 50, n)

EsFinito(a) == a.d # 0

\* _mostrar_resultados: Resultados.graficar draws a histogram of datos, which
\* matplotlib refuses (ValueError) when a value is not finite.
MostrarResultados(datos) ==
    IF \E i \in 1..Len(datos) : ~EsFinito(datos[i])
    THEN Raise("ValueError", "autodetected range is not finite")
    ELSE [ok |-> TRUE]

\* ------------------------------------------------------------- handlers
\* The keys of self.params_entries that _actualizar_parametros builds for the
\* selected distribution (none while no distribution is selected).
ClavesParametros(dist) ==
    CASE dist = "normal" -> <<"media", "desviacion">>
      [] dist = "uniforme" -> <<"minimo", "maximo">>
      [] dist = "triangular" -> <<"minimo", "moda", "maximo">>
      [] dist = "lognormal" -> <<"media_log", "desviacion_log">>
      [] dist = "binomial" -> <<"n", "p">>
      [] dist = "poisson" -> <<"lambda">>
      [] OTHER -> <<>>

Mensaje(de, tipo, texto) == [de |-> de, tipo |-> tipo, texto |-> texto]

\* _agregar_variable, the name box holding nombre_var, the combo box dist and
\* the parameter entries the texts entradas (one per key of params_entries).
AgregarVariable(nombre_var, dist, entradas) ==
    LET nombre == Strip(nombre_var)
        claves == ClavesParametros(dist)
        vacias == {k \in 1..Len(claves) : entradas[claves[k]].txt = "vacio"}
        malas == {k \in 1..Len(claves) : ~Float(entradas[claves[k]]).ok}
        \* the loop over params_entries stops at the first empty or bad entry
        primera == CHOOSE k \in vacias \cup malas : \A j \in vacias \cup malas : k <= j
        parametros == [c \in DOMAIN entradas |-> Float(entradas[c]).val.v.n]
        rechazo(texto) ==
            /\ mensaje' = Mensaje("agregar", "error", texto)
            /\ UNCHANGED <<variables, lista_variables>>
    IN  /\ IF nombre = <<>> THEN rechazo("debe ingresar un nombre")
           ELSE IF EnDict(nombre, variables) THEN rechazo("ya existe")
           ELSE IF dist = "" THEN rechazo("debe seleccionar una distribucion")
           ELSE IF vacias \cup malas # {}
           THEN (IF primera \in vacias THEN rechazo("debe ingresar el parametro")
                 ELSE rechazo("error en los parametros"))
           ELSE LET v == NuevaVariable(nombre, dist, parametros) IN
                IF ~v.ok THEN rechazo("error en los parametros")
                ELSE /\ variables' = DictSet(variables, v.val)
                     /\ lista_variables' = Append(lista_variables, FormatoLista(nombre, dist))
                     /\ mensaje' = Mensaje("agregar", "info", "agregada")
        /\ UNCHANGED <<formula_text, resultados, meta_resultado_label,
                       estimador_resultado_label, corrida>>
        /\ UNCHANGED libvars

\* _eliminar_variable with line idx (from 1) of the list box selected, or no
\* line selected (idx = 0).  del self.variables[nombre] raises KeyError for a
\* name that is no key, which ends the handler before anything changes.
EliminarVariable(idx) ==
    /\ IF idx = 0
       THEN /\ mensaje' = Mensaje("eliminar", "warning", "seleccione una variable")
            /\ UNCHANGED <<variables, lista_variables>>
       ELSE LET nombre == NombreDeTexto(lista_variables[idx]) IN
            IF ~EnDict(nombre, variables)
            THEN UNCHANGED <<variables, lista_variables, mensaje>>
            ELSE /\ variables' = DictDel(variables, nombre)
                 /\ lista_variables' =
                       SubSeq(lista_variables, 1, idx - 1)
                       \o SubSeq(lista_variables, idx + 1, Len(lista_variables))
                 /\ mensaje' = Mensaje("eliminar", "info", "eliminada")
    /\ UNCHANGED <<formula_text, resultados, meta_resultado_label,
                   estimador_resultado_label, corrida>>
    /\ UNCHANGED libvars

\* The user replaces the content of the formula box.
EditarFormula(formula) ==
    /\ formula_text' = formula
    /\ UNCHANGED <<variables, lista_variables, resultados, meta_resultado_label,
                   estimador_resultado_label, mensaje, corrida>>
    /\ UNCHANGED libvars

\* _ejecutar_simulacion with n_sim_var holding the text n_sim.
EjecutarSimulacion(n_sim) ==
    LET n == EnteroDe(n_sim)
        falla(texto) ==
            /\ mensaje' = Mensaje("ejecutar", "error", texto)
            /\ UNCHANGED <<resultados, corrida>>
    IN  /\ IF variables = <<>> THEN falla("debe agregar al menos una variable")
           ELSE IF formula_text.k = "vacia" THEN falla("debe ingresar una formula")
           ELSE IF ~n.ok \/ n.val.v.n <= 0 THEN falla("numero de simulaciones invalido")
           ELSE IF ~ValidarFormula(formula_text, variables).ok
           THEN falla("error en la simulacion")
           ELSE \E muestras \in Sorteos(variables, n.val.v.n) :
                  LET r == Ejecutar(formula_text, variables, n.val.v.n, muestras) IN
                  IF ~r.ok THEN falla("error en la simulacion")
                  ELSE /\ resultados' = [hay |-> TRUE, datos |-> r.datos]
                       /\ corrida' = [hay |-> TRUE, formula |-> formula_text,
                                      primera |-> variables[1].nombre]
                       /\ mensaje' =
                            IF MostrarResultados(r.datos).ok
                            THEN Mensaje("ejecutar", "info", "simulacion completada")
                            ELSE Mensaje("ejecutar", "error", "error en la simulacion")
        /\ UNCHANGED <<variables, lista_variables, formula_text,
                       meta_resultado_label, estimador_resultado_label>>
        /\ UNCHANGED libvars

\* What _actualizar_evaluador shows for the text valor_y of the goal entry.
EtiquetaEvaluador(datos, valor_y) ==
    IF valor_y.txt = "vacio" THEN [texto |-> ""]
    ELSE IF ~Float(valor_y).ok THEN [texto |-> "ingrese un numero valido"]
    ELSE LET meta == Float(valor_y).val.v
             percentil == PercentileOfScore(datos, meta)
             probabilidad == Add(Num(100), Neg(percentil))
         IN  [texto |-> "percentil", meta |-> meta, percentil |-> percentil,
              probabilidad |-> probabilidad,
              color |-> IF Le(Num(50), probabilidad) THEN "green"
                        ELSE IF Le(Num(25), probabilidad) THEN "orange"
                        ELSE "red"]

\* _actualizar_evaluador on a key release in the goal entry holding valor_y.
ActualizarEvaluador(valor_y) ==
    /\ meta_resultado_label' =
          IF ~resultados.hay THEN meta_resultado_label
          ELSE EtiquetaEvaluador(resultados.datos, valor_y)
    /\ UNCHANGED <<variables, lista_variables, formula_text, resultados,
                   estimador_resultado_label, mensaje, corrida>>
    /\ UNCHANGED libvars

\* The body of _actualizar_estimador once valor_x is a float: the formula is
\* evaluated with nombre_var alone bound to valor_x, and the percentile of
\* the value is looked up in datos.
Estimar(formula, nombre_var, valor_x, datos) ==
    LET r == IF formula.k = "vacia" THEN Raise("SyntaxError", "invalid syntax")
             ELSE Eval(formula, [c \in {nombre_var} |-> valor_x])
    IN  IF ~r.ok
        THEN (IF r.exc = "ValueError"
              THEN [texto |-> "ingrese un numero valido", x |-> valor_x.v]
              ELSE [texto |-> "error", x |-> valor_x.v, exc |-> r.exc, arg |-> r.arg])
        ELSE IF r.val.t = "builtin"
        THEN [texto |-> "error", x |-> valor_x.v, exc |-> "TypeError", arg |-> "percentileofscore"]
        ELSE [texto |-> "estimado", x |-> valor_x.v, y |-> r.val.v,
              percentil |-> PercentileOfScore(datos, r.val.v)]

\* What _actualizar_estimador shows for the text valor_x of the X entry.
EtiquetaEstimador(formula, vs, datos, valor_x) ==
    IF valor_x.txt = "vacio" THEN [texto |-> ""]
    ELSE IF ~Float(valor_x).ok THEN [texto |-> "ingrese un numero valido"]
    ELSE IF vs = <<>> THEN [texto |-> "no hay variables definidas"]
    ELSE Estimar(formula, vs[1].nombre, Float(valor_x).val, datos)

\* _actualizar_estimador on a key release in the X entry holding valor_x.
ActualizarEstimador(valor_x) ==
    /\ estimador_resultado_label' =
          IF ~resultados.hay THEN estimador_resultado_label
          ELSE EtiquetaEstimador(formula_text, variables, resultados.datos, valor_x)
    /\ UNCHANGED <<variables, lista_variables, formula_text, resultados,
                   meta_resultado_label, mensaje, corrida>>
    /\ UNCHANGED libvars

\* ------------------------------------------------------------- library calls
\* AplicacionMonteCarlo.__init__ and _crear_interfaz
AppInit ==
    /\ variables = <<>>
    /\ lista_variables = <<>>
    /\ formula_text = [k |-> "vacia"]
    /\ resultados = [hay |-> FALSE]
    /\ meta_resultado_label = [texto |-> "simule primero"]
    /\ estimador_resultado_label = [texto |-> "simule primero"]
    /\ mensaje = [de |-> "nadie", tipo |-> "ninguno"]
    /\ corrida = [hay |-> FALSE]

LibIdle ==
    /\ registro = <<>>
    /\ modelo = [def |-> FALSE]
    /\ retorno = [op |-> "ninguna"]

LibInit == LibIdle /\ AppInit

\* registro[nombre] = Variable(nombre, distribucion, parametros)
LibVariable(nombre, c) ==
    LET r == NuevaVariable(nombre, c.distribucion, c.parametros) IN
    /\ registro' = IF r.ok THEN DictSet(registro, r.val) ELSE registro
    /\ retorno' = [op |-> "Variable", distribucion |-> c.distribucion,
                   parametros |-> c.parametros, res |-> r]
    /\ UNCHANGED modelo
    /\ UNCHANGED appvars

\* modelo = Modelo(formula, registro)
LibModelo(formula) ==
    LET r == ValidarFormula(formula, registro) IN
    /\ modelo' = IF r.ok THEN [def |-> TRUE, formula |-> formula] ELSE modelo
    /\ retorno' = [op |-> "Modelo", formula |-> formula,
                   claves |-> Claves(registro), res |-> r]
    /\ UNCHANGED registro
    /\ UNCHANGED appvars

\* Simulador(modelo, n).ejecutar()
LibEjecutar(n, muestras) ==
    /\ modelo.def
    /\ retorno' = [op |-> "ejecutar", formula |-> modelo.formula,
                   variables |-> registro, n |-> n, muestras |-> muestras,
                   res |-> Ejecutar(modelo.formula, registro, n, muestras)]
    /\ UNCHANGED <<registro, modelo>>
    /\ UNCHANGED appvars

\* del registro[nombre], the caller removing a variable from the dict it
\* passed to Modelo (as _eliminar_variable does with self.variables).
LibEliminar(nombre) ==
    /\ registro' = IF EnDict(nombre, registro) THEN DictDel(registro, nombre)
                   ELSE registro
    /\ retorno' = [op |-> "del", nombre |-> nombre,
                   res |-> IF EnDict(nombre, registro) THEN [ok |-> TRUE]
                           ELSE Raise("KeyError", nombre)]
    /\ UNCHANGED modelo
    /\ UNCHANGED appvars

LibNext ==
    \/ \E nombre \in NombresLib : \E c \in ConfigsLib(nombre) : LibVariable(nombre, c)
    \/ \E formula \in FormulasLib : LibModelo(formula)
    \/ \E n \in (-1)..MaxN : \E muestras \in Sorteos(registro, n) : LibEjecutar(n, muestras)
    \/ \E nombre \in NombresLib : LibEliminar(nombre)

SpecLib == LibInit /\ [][LibNext]_vars

\* ------------------------------------------------------------- the application
\* What the user types into the name box.
NombresApp == {<<" ">>, X, Y}

E1(k, t) == [c \in {k} |-> t]
E2(k1, t1, k2, t2) == [c \in {k1, k2} |-> IF c = k1 THEN t1 ELSE t2]

\* What the user selects and types for a variable of that name: the
\* distribution of the combo box ("" for none) and the parameter entries.
ConfigsApp(nombre_var) ==
    IF nombre_var = Y
    THEN { [dist |-> "uniforme", entradas |-> E2("minimo", TNum(1), "maximo", TNum(1))] }
    ELSE { [dist |-> "poisson", entradas |-> E1("lambda", TNum(1))],
           [dist |-> "poisson", entradas |-> E1("lambda", TVacio)],
           [dist |-> "poisson", entradas |-> E1("lambda", TMalo)],
           [dist |-> "", entradas |-> <<>>] }

\* "", "x + y", "1 / x + y", "2 ** (x - 1)"
FormulasApp ==
    { [k |-> "vacia"],
      Bin("+", Name(X), Name(Y)),
      Bin("+", Bin("/", Lit(1), Name(X)), Name(Y)),
      Bin("**", Lit(2), Bin("-", Name(X), Lit(1))) }

NSimApp == {TMalo} \cup {TNum(i) : i \in 0..MaxSim}
XsApp == {TVacio, TMalo, TNum(0)}

Init == LibIdle /\ AppInit

\* The handlers that read or write the registry, the formula, the results
\* and the estimator label.  _actualizar_evaluador reads resultados and writes
\* meta_resultado_label only; it is explored in SpecEvaluador.
Next ==
    \/ \E nombre_var \in NombresApp : \E c \in ConfigsApp(nombre_var) :
          AgregarVariable(nombre_var, c.dist, c.entradas)
    \/ \E idx \in 0..Len(lista_variables) : EliminarVariable(idx)
    \/ \E formula \in FormulasApp : EditarFormula(formula)
    \/ \E n_sim \in NSimApp : EjecutarSimulacion(n_sim)
    \/ \E valor_x \in XsApp : ActualizarEstimador(valor_x)

Spec == Init /\ [][Next]_vars

\* ------------------------------------------------------------- the goal evaluator alone
\* Outcome sequences of up to MaxDatos trials.
MaxDatos == 3
ValoresDatos == {Num(-1), Num(0), Norm(1, 2), Num(1), Inf}
MetasEvaluador == {TVacio, TMalo} \cup {TNum(i) : i \in (-2)..2}

\* The application after a run of the formula "x" over one normal variable
\* x whose trials came out as datos.
EvaluadorInit ==
    /\ LibIdle
    /\ variables = <<[nombre |-> X, distribucion |-> "normal",
                      parametros |-> P2("media", 0, "desviacion", 1)]>>
    /\ lista_variables = <<FormatoLista(X, "normal")>>
    /\ formula_text = Name(X)
    /\ resultados \in {[hay |-> TRUE, datos |-> d] :
                         d \in UNION {[1..k -> ValoresDatos] : k \in 1..MaxDatos}}
    /\ meta_resultado_label = [texto |-> "simule primero"]
    /\ estimador_resultado_label = [texto |-> "simule primero"]
    /\ mensaje = Mensaje("ejecutar", "info", "simulacion completada")
    /\ corrida = [hay |-> TRUE, formula |-> Name(X), primera |-> X]

EvaluadorNext == \E valor_y \in MetasEvaluador : ActualizarEvaluador(valor_y)

SpecEvaluador == EvaluadorInit /\ [][EvaluadorNext]_vars

\* ------------------------------------------------------------- the registry alone
\* Adding and removing variables, the only handlers that write
\* self.variables and the list box, with names that need strip() and a name
\* that holds the separator of the list-box text.
XK == <<"x", " (", "k">>
NombresRegistro == {<<" ">>, X, <<" ", "x", " ">>, Y, XK}
ConfigsRegistro ==
    { [dist |-> "poisson", entradas |-> E1("lambda", TNum(1))],
      [dist |-> "poisson", entradas |-> E1("lambda", TVacio)],
      [dist |-> "poisson", entradas |-> E1("lambda", TMalo)],
      [dist |-> "", entradas |-> <<>>] }

RegistroNext ==
    \/ \E nombre_var \in NombresRegistro : \E c \in ConfigsRegistro :
          AgregarVariable(nombre_var, c.dist, c.entradas)
    \/ \E idx \in 0..Len(lista_variables) : EliminarVariable(idx)

SpecRegistro == Init /\ [][RegistroNext]_vars

\* ============================================================= claims

\* The draws of the recorded run all succeeded.
SorteosBien == \A k \in 1..Len(retorno.muestras) : retorno.muestras[k].ok
\* eval of the recorded run's formula on the values of trial i.
EvalPrueba(i) ==
    Eval(retorno.formula, ValoresActuales(retorno.variables, retorno.muestras, i))

\* C1: a run with n >= 1 trials whose draws succeed and whose formula
\* evaluates without error on every trial returns a Resultados whose datos
\* has exactly n elements; and no returned datos has another length.
C1_LongitudExacta ==
    retorno.op = "ejecutar" /\ retorno.n >= 1 =>
        /\ (SorteosBien /\ \A i \in 1..retorno.n : EvalPrueba(i).ok) =>
                retorno.res.ok /\ Len(retorno.res.datos) = retorno.n
        /\ retorno.res.ok => Len(retorno.res.datos) = retorno.n
C1_Witness ==
    /\ retorno.op = "ejecutar" /\ retorno.n >= 2 /\ Len(retorno.variables) = 2
    /\ retorno.res.ok /\ Len(retorno.res.datos) = retorno.n

\* C2: a run with n <= 0 trials raises and returns no Resultados.
C2_ConteoInvalidoFalla ==
    retorno.op = "ejecutar" /\ retorno.n <= 0 => ~retorno.res.ok

\* C3: Modelo(formula, variables) succeeds exactly when every identifier of
\* the formula outside the whitelist is a key of variables; otherwise it
\* raises ValueError naming the first such identifier that is not a key.
C3_ValidacionFormula ==
    retorno.op = "Modelo" =>
        LET ids == Identificadores(retorno.formula)
            libres == {k \in 1..Len(ids) : ids[k] \notin funciones_permitidas}
            declarado(k) == \E j \in 1..Len(retorno.claves) : retorno.claves[j] = ids[k]
        IN  /\ retorno.res.ok <=> \A k \in libres : declarado(k)
            /\ ~retorno.res.ok =>
                 /\ retorno.res.exc = "ValueError"
                 /\ \E k \in libres :
                      /\ ~declarado(k) /\ retorno.res.arg = ids[k]
                      /\ \A j \in libres : j < k => declarado(j)
\* "x + y" with only x declared fails naming y.
C3_Witness ==
    /\ retorno.op = "Modelo"
    /\ retorno.formula = Bin("+", Name(X), Name(Y))
    /\ retorno.claves = <<X>>
    /\ ~retorno.res.ok /\ retorno.res.arg = Y

\* C4: when the evaluation of any trial fails, ejecutar raises (the
\* ValueError of Modelo.evaluar) and returns no datos at all.
C4_FalloAbortaCorrida ==
    (retorno.op = "ejecutar" /\ SorteosBien
        /\ \E i \in 1..retorno.n : ~EvalPrueba(i).ok) =>
            /\ ~retorno.res.ok
            /\ retorno.res.exc = "ValueError"
            /\ "datos" \notin DOMAIN retorno.res
\* The first trial evaluates and the second fails.
C4_Witness ==
    /\ retorno.op = "ejecutar" /\ SorteosBien /\ retorno.n >= 2
    /\ EvalPrueba(1).ok /\ ~EvalPrueba(2).ok
    /\ ~retorno.res.ok

\* C5: a Variable that was constructed has every parameter its distribution
\* reads, within the domain numpy accepts (so that generar_muestra cannot
\* fail on its parameters).
C5_ParametrosValidados ==
    retorno.op = "Variable" /\ retorno.res.ok =>
        /\ \A k \in 1..Len(ClavesLeidas(retorno.distribucion)) :
              ClavesLeidas(retorno.distribucion)[k] \in DOMAIN retorno.parametros
        /\ ~FueraDeDominio(retorno.distribucion, retorno.parametros)

\* Counts over the outcomes shown to the goal evaluator.
Menores(meta) ==
    Cardinality({i \in 1..Len(resultados.datos) : Lt(resultados.datos[i], meta)})
Iguales(meta) ==
    Cardinality({i \in 1..Len(resultados.datos) : resultados.datos[i] = meta})
HayPercentil == meta_resultado_label.texto = "percentil"

BajoTodos ==
    \A i \in 1..Len(resultados.datos) : Lt(meta_resultado_label.meta, resultados.datos[i])
SobreTodos ==
    \A i \in 1..Len(resultados.datos) : Lt(resultados.datos[i], meta_resultado_label.meta)

\* C8: a target strictly below every outcome has percentile 0 and
\* probability 100; a target strictly above every outcome has percentile
\* 100 and probability 0.
C8_Extremos ==
    HayPercentil =>
        /\ BajoTodos => /\ meta_resultado_label.percentil = Num(0)
                        /\ meta_resultado_label.probabilidad = Num(100)
        /\ SobreTodos => /\ meta_resultado_label.percentil = Num(100)
                         /\ meta_resultado_label.probabilidad = Num(0)
\* Several distinct outcomes, all below the target.
C8_Witness ==
    /\ HayPercentil /\ SobreTodos
    /\ Len(resultados.datos) >= 2
    /\ resultados.datos[1] # resultados.datos[2]
    /\ meta_resultado_label.probabilidad = Num(0)

\* Two estimator labels show the same thing.
MismaEtiqueta(a, b) ==
    /\ a.texto = b.texto
    /\ a.texto = "estimado" => a.y = b.y /\ a.percentil = b.percentil
    /\ a.texto = "error" =>
          /\ a.exc = b.exc
          /\ a.exc = "NameError" => a.arg = b.arg

\* C9: an estimate for a number x, made while results are on display, shows
\* what the formula of the run that produced them gives with x for the
\* variable that run had first, whatever was added, removed or edited in
\* between.
C9_EstimaElModeloDeLaCorrida ==
    [][\A valor_x \in XsApp :
          (resultados.hay /\ Float(valor_x).ok /\ ActualizarEstimador(valor_x)) =>
              MismaEtiqueta(estimador_resultado_label',
                            Estimar(corrida.formula, corrida.primera,
                                    Float(valor_x).val, resultados.datos))]_vars

\* The formula of the run references a variable other than the run's first.
CorridaUsaOtraVariable ==
    LET ids == Identificadores(corrida.formula) IN
    \E k \in 1..Len(ids) :
        ids[k] \notin funciones_permitidas /\ ids[k] # corrida.primera
\* The formula box and the first variable are still those of the run.
ComoEnLaCorrida ==
    /\ formula_text = corrida.formula
    /\ variables # <<>>
    /\ variables[1].nombre = corrida.primera

\* C10: when the formula references a declared variable other than the
\* first, an estimate for a number x shows the undefined-name error, with no
\* y and no percentile.
C10_OtraVariableNoDefinida ==
    [][\A valor_x \in XsApp :
          (/\ resultados.hay /\ Float(valor_x).ok
           /\ ComoEnLaCorrida /\ CorridaUsaOtraVariable
           /\ ActualizarEstimador(valor_x)) =>
              /\ estimador_resultado_label'.texto = "error"
              /\ estimador_resultado_label'.exc = "NameError"]_vars

\* C11: Modelo.evaluar never returns an infinity or a not-a-number for the
\* (finite) values of a trial: a formula that hits an arithmetic error such
\* as a division by zero fails with ValueError instead.
C11_ErrorAritmeticoFalla ==
    (retorno.op = "ejecutar" /\ SorteosBien) =>
        \A i \in 1..retorno.n :
            LET r == Evaluar(retorno.formula,
                             ValoresActuales(retorno.variables, retorno.muestras, i))
            IN  r.ok => EsFinito(r.val.v)

\* C12: once a Modelo has been constructed, every identifier of its formula
\* outside the whitelist is a key of its variables (the dict the caller
\* passed and keeps changing).
C12_InvarianteModelo ==
    modelo.def =>
        LET ids == Identificadores(modelo.formula) IN
        \A k \in 1..Len(ids) :
            ids[k] \notin funciones_permitidas => EnDict(ids[k], registro)

\* C13: in a run of n trials that returns, every variable of the model has
\* a sample array of exactly n draws of its own distribution, and outcome i
\* is the formula evaluated on the i-th draw of every variable, for each i
\* in order.
C13_PruebasAlineadas ==
    (retorno.op = "ejecutar" /\ retorno.res.ok) =>
        LET vs == retorno.variables
            n == retorno.n
            valores(i) ==
                [c \in {vs[k].nombre : k \in 1..Len(vs)} |->
                    retorno.muestras[CHOOSE k \in 1..Len(vs) : vs[k].nombre = c].arr[i]]
        IN  /\ \A k \in 1..Len(vs) :
                  /\ retorno.muestras[k].ok
                  /\ DOMAIN retorno.muestras[k].arr = 1..n
                  /\ retorno.muestras[k] \in GenerarMuestra(vs[k], n)
            /\ DOMAIN retorno.res.datos = 1..n
            /\ \A i \in 1..n :
                  /\ Eval(retorno.formula, valores(i)).ok
                  /\ retorno.res.datos[i] = Eval(retorno.formula, valores(i)).val.v
\* Two variables whose draws differ between the two trials of "x + y".
C13_Witness ==
    /\ retorno.op = "ejecutar" /\ retorno.res.ok
    /\ retorno.n >= 2 /\ Len(retorno.variables) = 2
    /\ retorno.formula = Bin("+", Name(X), Name(Y))
    /\ retorno.muestras[1].arr[1] # retorno.muestras[1].arr[2]
    /\ retorno.muestras[2].arr[1] # retorno.muestras[2].arr[2]
    /\ retorno.res.datos[1] # retorno.res.datos[2]

\* A text of blanks only (the empty text included).
EnBlanco(t) == \A k \in 1..Len(t) : t[k] = " "
\* The text without the blanks typed around it names a key of the registry.
YaRegistrado(t) ==
    \E k \in 1..Len(variables) :
        \E a, b \in 0..Len(t) :
            /\ a + Len(variables[k].nombre) + b = Len(t)
            /\ \A j \in 1..Len(t) :
                  IF j <= a \/ j > Len(t) - b THEN t[j] = " "
                  ELSE t[j] = variables[k].nombre[j - a]
NombresUnicos ==
    \A j, k \in 1..Len(variables) :
        /\ ~EnBlanco(variables[k].nombre)
        /\ variables[k].nombre[1] # " "
        /\ variables[k].nombre[Len(variables[k].nombre)] # " "
        /\ j # k => variables[j].nombre # variables[k].nombre

C16_ListaYRegistro ==
    /\ Len(lista_variables) = Len(variables)
    /\ \A k \in 1..Len(variables) :
          lista_variables[k] =
              FormatoLista(variables[k].nombre, variables[k].distribucion)

\* C15: a simulation attempt that ends with the error message leaves the
\* stored results as they were.
C15_FalloConservaResultados ==
    [][\A n_sim \in NSimApp :
          (/\ EjecutarSimulacion(n_sim)
           /\ mensaje'.de = "ejecutar" /\ mensaje'.tipo = "error")
              => resultados' = resultados]_vars
====
